---- MODULE Spec2Model ----
(***************************************************************************)
(* A model of the two enrichment pipelines of theta205/ai-context:         *)
(*   - reddit_search.py  : RedditSearcher.search and its helpers           *)
(*   - youtube_search.py : YouTubeSearcher.get_video_transcript and        *)
(*                         YouTubeSearcher.search_videos                   *)
(* Each pipeline has its own specification (SpecReddit, SpecComments,      *)
(* SpecTranscript, SpecVideos, and SpecFormatter and SpecLoop for          *)
(* __format_slim_xml on any list and for the loop of search at the grain   *)
(* of its calls); the variables of the other pipelines stay at their       *)
(* initial value while one pipeline runs. SpecSearchers runs one call of   *)
(* either search tool.                                                     *)
(***************************************************************************)
EXTENDS Integers, Sequences, FiniteSets, TLC

\* RedditSearcher.search: the arguments, the locals and the position in the run
VARIABLES r_pc, query, num_results, format, include_comments, comment_limit,
          results, posts, returned,
          \* history: the candidates yielded so far with what became of each,
          \* and the number of calls made to the collaborators
          yielded, discovery_calls, api_calls

reddit_vars == <<r_pc, query, num_results, format, include_comments, comment_limit,
                 results, posts, returned, yielded, discovery_calls, api_calls>>

\* RedditSearcher.__get_post_data, the comments alone: the feed of the
\* submission, the two arguments that shape the comments, and the comments built
VARIABLES c_pc, c_feed, c_include, c_limit, c_comments

comments_vars == <<c_pc, c_feed, c_include, c_limit, c_comments>>

\* YouTubeSearcher.get_video_transcript: self.max_retries, the loop variable,
\* the position in the call, what it returned, and the history of the delays
\* and of the calls to the transcript API
VARIABLES t_pc, max_retries, attempt, t_result, t_log

transcript_vars == <<t_pc, max_retries, attempt, t_result, t_log>>

\* YouTubeSearcher.search_videos: the arguments, the items of the search
\* response still to process, the batch, what was returned, and the history of
\* the items processed with what the collaborators did for each
VARIABLES v_pc, v_format, include_full_transcript, max_results, v_items, videos,
          v_returned, v_hist

videos_vars == <<v_pc, v_format, include_full_transcript, max_results, v_items, videos,
                 v_returned, v_hist>>

\* RedditSearcher.__format_slim_xml: the argument, the list of lines it builds
\* and the position in the call
VARIABLES x_pc, x_posts, x_lines

formatter_vars == <<x_pc, x_posts, x_lines>>

\* the for loop of RedditSearcher.search at the grain of the calls it makes: the
\* candidates the iterator still holds, the target, the number of records
\* accepted, and the number of calls of __get_post_data begun and not returned
VARIABLES l_pc, l_candidates, l_num_results, l_accepted, l_in_flight

loop_vars == <<l_pc, l_candidates, l_num_results, l_accepted, l_in_flight>>

vars == <<reddit_vars, comments_vars, transcript_vars, videos_vars,
          formatter_vars, loop_vars>>

-----------------------------------------------------------------------------
(* Bounds of the model *)

\* longest candidate sequence the discovery provider yields
MaxCands == 3
\* largest in-range num_results tried besides the upper limit itself
MaxNum == 2
\* longest comment feed / largest score / largest comment_limit (SpecComments)
MaxFeed == 3
MaxScore == 2
MaxLimit == 3
\* largest max_retries tried (SpecTranscript)
MaxRetriesTried == 4
\* most items in a search response (SpecVideos)
MaxItems == 2

-----------------------------------------------------------------------------
(* Program constants *)

\* search(): 1 <= num_results <= 25
MinNumResults == 1
MaxNumResults == 25
\* search(): default comment_limit
DefaultCommentLimit == 5
\* YouTubeSearcher.__init__: default max_retries
DefaultMaxRetries == 3
\* get_video_transcript: time.sleep(0.15) and time.sleep(1), in milliseconds
RateDelayMs == 150
BackoffMs == 1000
\* search_videos: max(1, min(10, max_results))
MinMaxResults == 1
MaxMaxResults == 10
\* search_videos, the formatters: text[:500] + '...'
PreviewChars == 500

-----------------------------------------------------------------------------
(* Generic helpers *)

Min(a, b) == IF a <= b THEN a ELSE b
Max(a, b) == IF a >= b THEN a ELSE b

\* Python's None where an object is expected, and where a string is expected
None == [tag |-> "None"]
NoneStr == "<None>"

\* Python s[:k] : a negative k counts from the end
PySlicePrefix(s, k) ==
    IF k >= 0 THEN SubSeq(s, 1, Min(k, Len(s)))
    ELSE SubSeq(s, 1, Max(Len(s) + k, 0))

-----------------------------------------------------------------------------
(* Text: free text is a sequence of tokens; an HTML entity is one token.   *)

Whitespace == {" ", "\n"}

\* html.unescape on one token
unescape_char(c) ==
    CASE c = "&lt;"  -> "<"
      [] c = "&gt;"  -> ">"
      [] c = "&amp;" -> "&"
      [] OTHER       -> c

\* html.unescape
unescape(t) == [i \in 1..Len(t) |-> unescape_char(t[i])]

\* ' '.join(text.split()) : runs of whitespace collapse to one blank, and
\* leading and trailing whitespace goes
RECURSIVE collapse_ws(_, _)
collapse_ws(t, pending) ==
    IF t = <<>> THEN <<>>
    ELSE IF Head(t) \in Whitespace THEN collapse_ws(Tail(t), TRUE)
    ELSE (IF pending THEN <<" ">> ELSE <<>>) \o <<Head(t)>> \o collapse_ws(Tail(t), FALSE)

RECURSIVE strip_leading(_)
strip_leading(t) ==
    IF t = <<>> THEN <<>>
    ELSE IF Head(t) \in Whitespace THEN strip_leading(Tail(t)) ELSE t

normalize_ws(t) == collapse_ws(strip_leading(t), FALSE)

-----------------------------------------------------------------------------
(* reddit_search.py : data *)

\* datetime.utcfromtimestamp(ts).isoformat()
iso_format(ts) == <<"iso", ts>>

\* what the Reddit API holds for the post ids of the model
FeedA ==
    << [author |-> None, score |-> 1, body |-> <<"low">>,
        created_utc |-> 11, stickied |-> FALSE],
       [author |-> [name |-> "mod"], score |-> 7, body |-> <<"rules">>,
        created_utc |-> 12, stickied |-> TRUE],
       [author |-> [name |-> "u2"], score |-> 9, body |-> <<"x", " ", "\n", "&lt;", "y">>,
        created_utc |-> 13, stickied |-> FALSE],
       [author |-> [name |-> "u3"], score |-> 9, body |-> <<"late">>,
        created_utc |-> 14, stickied |-> FALSE] >>

SubmissionOf(id) ==
    IF id = "a"
    THEN [title |-> <<"A", "&amp;", "<">>, author |-> [name |-> "u1"],
          subreddit |-> <<"s1">>, score |-> 10, num_comments |-> 4,
          created_utc |-> 10, permalink |-> <<"/r/", "s1", "/comments/", "a", "/">>,
          selftext |-> <<"body", "&">>, comments |-> FeedA]
    ELSE [title |-> <<"B">>, author |-> None,
          subreddit |-> <<"s2">>, score |-> 3, num_comments |-> 0,
          created_utc |-> 20, permalink |-> <<"/r/", "s2", "/comments/", id, "/">>,
          selftext |-> <<>>, comments |-> <<>>]

\* the candidate URLs the discovery provider may yield
LongA  == [malformed |-> FALSE, scheme |-> "https", netloc |-> "www.reddit.com",
           path |-> <<"r", "s1", "comments", "a", "some_title">>, query |-> "utm=1"]
ShortA == [malformed |-> FALSE, scheme |-> "https", netloc |-> "redd.it",
           path |-> <<"a">>, query |-> ""]
LongB  == [malformed |-> FALSE, scheme |-> "https", netloc |-> "reddit.com",
           path |-> <<"r", "s2", "comments", "b">>, query |-> ""]
SubPage == [malformed |-> FALSE, scheme |-> "https", netloc |-> "www.reddit.com",
           path |-> <<"r", "s1">>, query |-> ""]
BadUrl == [malformed |-> TRUE, scheme |-> "http", netloc |-> "[::1", path |-> <<>>,
           query |-> ""]
Urls == {LongA, ShortA, LongB, SubPage, BadUrl}

\* outcome of one load of a submission from the Reddit API
FetchOutcomes == {"ok", "transient", "permanent"}

-----------------------------------------------------------------------------
(* reddit_search.py : helpers *)

\* hosts on which the text "reddit.com" / "redd.it" ends the segment before the path
RedditHosts == {"reddit.com", "www.reddit.com"}
ShortHosts == {"redd.it"}

\* clean_url = f"{parsed.scheme}://{parsed.netloc}{parsed.path}" : the query goes
clean_url(url) == [scheme |-> url.scheme, netloc |-> url.netloc, path |-> url.path]

\* re.search(r"reddit\.com/r/\w+/comments/(\w+)") then re.search(r"redd\.it/(\w+)")
\* over the segments host/path[1]/path[2]/... ; the leftmost match of the first
\* pattern that matches wins
extract_post_id(u) ==
    LET L == <<u.netloc>> \o u.path
        long(i) == /\ L[i] \in RedditHosts
                   /\ i + 4 <= Len(L)
                   /\ L[i + 1] = "r"
                   /\ L[i + 3] = "comments"
        short(i) == L[i] \in ShortHosts /\ i + 1 <= Len(L)
        Is == {i \in 1..Len(L) : long(i)}
        Js == {i \in 1..Len(L) : short(i)}
        first(S) == CHOOSE i \in S : \A j \in S : i <= j
    IN  IF Is # {} THEN L[first(Is) + 4]
        ELSE IF Js # {} THEN L[first(Js) + 1]
        ELSE NoneStr

\* lines 328-330: urlparse raises ValueError on a malformed URL, which the
\* handler of line 351 turns into "skip"; otherwise the id or None
resolve(url) == IF url.malformed THEN NoneStr ELSE extract_post_id(clean_url(url))

\* sorted(..., key=lambda x: x.score, reverse=True) : stable, descending
RECURSIVE insert_desc(_, _)
insert_desc(x, s) ==
    IF s = <<>> THEN <<x>>
    ELSE IF Head(s).score >= x.score THEN <<Head(s)>> \o insert_desc(x, Tail(s))
    ELSE <<x>> \o s

RECURSIVE sorted_desc(_)
sorted_desc(s) ==
    IF s = <<>> THEN <<>>
    ELSE insert_desc(s[Len(s)], sorted_desc(SubSeq(s, 1, Len(s) - 1)))

\* the list comprehension of lines 147-156
RECURSIVE build_comments(_)
build_comments(feed) ==
    IF feed = <<>> THEN <<>>
    ELSE LET c == Head(feed)
         IN  (IF c.stickied THEN <<>>
              ELSE << [author |-> IF c.author = None THEN "[deleted]" ELSE c.author.name,
                       score |-> c.score,
                       body |-> c.body,
                       created_utc |-> iso_format(c.created_utc)] >>)
             \o build_comments(Tail(feed))

\* comments sliced before they are sorted
top_comments_slice_first(feed, inc, lim) ==
    IF inc
    THEN sorted_desc(PySlicePrefix(build_comments(feed), lim))
    ELSE <<>>

\* lines 143-159: sort the whole set, then slice
top_comments(feed, inc, lim) ==
    IF inc
    THEN PySlicePrefix(sorted_desc(build_comments(feed)), lim)
    ELSE <<>>

\* lines 163-173
build_post(submission, comments) ==
    [title |-> submission.title,
     author |-> IF submission.author = None THEN "[deleted]" ELSE submission.author.name,
     subreddit |-> submission.subreddit,
     score |-> submission.score,
     num_comments |-> submission.num_comments,
     created_utc |-> iso_format(submission.created_utc),
     url |-> <<"https://reddit.com">> \o submission.permalink,
     selftext |-> submission.selftext,
     comments |-> comments]

\* __get_post_data: any exception while loading or building gives None
get_post_data(post_id, inc, lim, outcome) ==
    IF outcome # "ok" THEN None
    ELSE build_post(SubmissionOf(post_id),
                    top_comments(SubmissionOf(post_id).comments, inc, lim))

\* __format_slim_json
format_slim_json(post) ==
    [title |-> post.title,
     subreddit |-> post.subreddit,
     url |-> post.url,
     selftext |-> post.selftext,
     comments |-> [i \in 1..Len(post.comments) |-> [body |-> post.comments[i].body]]]

\* one line of the markup document
Line(tag, text) == [tag |-> tag, text |-> text]

\* lines 255-271
RECURSIVE xml_comment_lines(_)
xml_comment_lines(comments) ==
    IF comments = <<>> THEN <<>>
    ELSE (IF Head(comments).body # <<>>
          THEN <<Line("comment", normalize_ws(unescape(Head(comments).body)))>>
          ELSE <<>>)
         \o xml_comment_lines(Tail(comments))

\* lines 216-273 for one post
xml_post_lines(post) ==
    <<Line("<post>", <<>>)>>
    \o (IF post.title # <<>> THEN <<Line("title", unescape(post.title))>> ELSE <<>>)
    \o (IF post.subreddit # <<>> THEN <<Line("subreddit", post.subreddit)>> ELSE <<>>)
    \o (IF post.url # <<>> THEN <<Line("url", post.url)>> ELSE <<>>)
    \o (IF post.selftext # <<>>
        THEN <<Line("<selftext>", <<>>), Line("#text", unescape(post.selftext)),
               Line("</selftext>", <<>>)>>
        ELSE <<>>)
    \o (IF post.comments # <<>>
        THEN <<Line("<comments>", <<>>)>> \o xml_comment_lines(post.comments)
             \o <<Line("</comments>", <<>>)>>
        ELSE <<>>)
    \o <<Line("</post>", <<>>)>>

RECURSIVE xml_posts_lines(_)
xml_posts_lines(ps) ==
    IF ps = <<>> THEN <<>>
    ELSE (IF Head(ps) = None THEN <<>> ELSE xml_post_lines(Head(ps)))
         \o xml_posts_lines(Tail(ps))

\* __format_slim_xml on a list of posts: the document as its sequence of lines
format_slim_xml(ps) ==
    <<Line("<reddit_posts>", <<>>)>> \o xml_posts_lines(ps)
    \o <<Line("</reddit_posts>", <<>>)>>

\* lines 307-314
Formats == {"raw", "slim_json", "slim_xml"}

\* a validation that forgets the upper limit of num_results
valid_config_no_upper(fmt, q, n) ==
    /\ fmt \in Formats
    /\ q # ""
    /\ MinNumResults <= n

valid_config(fmt, q, n) ==
    /\ fmt \in Formats
    /\ q # ""
    /\ MinNumResults <= n /\ n <= MaxNumResults

\* a loop that stops one record late
target_reached_late(ps, rs, n) == Len(ps) + Len(rs) > n

\* line 348
target_reached(ps, rs, n) == Len(ps) + Len(rs) >= n

\* an accumulator that takes each accepted post at its front
accept_results_prepend(fmt, rs, post) ==
    IF fmt = "slim_json" THEN <<format_slim_json(post)>> \o rs
    ELSE IF fmt = "raw" THEN <<post>> \o rs
    ELSE rs

\* lines 340-346: where an accepted post goes
accept_results(fmt, rs, post) ==
    IF fmt = "slim_json" THEN Append(rs, format_slim_json(post))
    ELSE IF fmt = "raw" THEN Append(rs, post)
    ELSE rs

accept_posts(fmt, ps, post) ==
    IF fmt \in {"raw", "slim_json"} THEN ps ELSE Append(ps, post)

\* lines 356-357
finish_results(fmt, rs, ps, n) ==
    IF fmt = "slim_xml" /\ ps # <<>>
    THEN Append(rs, format_slim_xml(PySlicePrefix(ps, n)))
    ELSE rs

-----------------------------------------------------------------------------
(* RedditSearcher.search as a state machine *)

Queries == {"", "best 1440p monitors"}
NumResultsTried == 0..MaxNum \cup {MaxNumResults, MaxNumResults + 1}
CommentLimitsTried == {1, DefaultCommentLimit}

\* the pipelines that do not run under a specification stay idle
IdleReddit ==
    /\ r_pc = "idle"
    /\ query = ""
    /\ num_results = 0
    /\ format = "raw"
    /\ include_comments = FALSE
    /\ comment_limit = 0
    /\ results = <<>>
    /\ posts = <<>>
    /\ returned = None
    /\ yielded = <<>>
    /\ discovery_calls = 0
    /\ api_calls = 0

IdleComments ==
    /\ c_pc = "idle"
    /\ c_feed = <<>>
    /\ c_include = FALSE
    /\ c_limit = 0
    /\ c_comments = <<>>

IdleTranscript ==
    /\ t_pc = "idle"
    /\ max_retries = 0
    /\ attempt = 0
    /\ t_result = [some |-> FALSE, text |-> <<>>]
    /\ t_log = <<>>

IdleFormatter ==
    /\ x_pc = "idle"
    /\ x_posts = <<>>
    /\ x_lines = <<>>

IdleLoop ==
    /\ l_pc = "idle"
    /\ l_candidates = <<>>
    /\ l_num_results = 0
    /\ l_accepted = 0
    /\ l_in_flight = 0

IdleVideos ==
    /\ v_pc = "idle"
    /\ v_format = "raw"
    /\ include_full_transcript = FALSE
    /\ max_results = 0
    /\ v_items = <<>>
    /\ videos = <<>>
    /\ v_returned = None
    /\ v_hist = <<>>

InitReddit ==
    /\ IdleComments
    /\ IdleTranscript
    /\ IdleVideos
    /\ IdleFormatter
    /\ IdleLoop
    /\ r_pc = "start"
    /\ query \in Queries
    /\ num_results \in NumResultsTried
    /\ format \in Formats \cup {"csv"}
    /\ include_comments \in BOOLEAN
    /\ comment_limit \in CommentLimitsTried
    \* comment_limit is not read when the comments are left out
    /\ (~include_comments => comment_limit = DefaultCommentLimit)
    /\ results = <<>>
    /\ posts = <<>>
    /\ returned = None
    /\ yielded = <<>>
    /\ discovery_calls = 0
    /\ api_calls = 0

\* what the history keeps of one candidate
Yield(url, post_id, outcome, attempts) ==
    [url |-> url, post_id |-> post_id, outcome |-> outcome, attempts |-> attempts]

\* lines 307-314: a ValueError leaves search before anything else happens
SearchRaise ==
    /\ r_pc = "start"
    /\ ~valid_config(format, query, num_results)
    /\ r_pc' = "raised"
    /\ UNCHANGED <<comments_vars, transcript_vars, videos_vars,
                   formatter_vars, loop_vars>>
    /\ UNCHANGED <<query, num_results, format, include_comments, comment_limit,
                   results, posts, returned, yielded, discovery_calls, api_calls>>

\* lines 316-323: the locals are set and the discovery provider is called
SearchBegin ==
    /\ r_pc = "start"
    /\ valid_config(format, query, num_results)
    /\ r_pc' = "loop"
    /\ results' = <<>>
    /\ posts' = <<>>
    /\ discovery_calls' = discovery_calls + 1
    /\ UNCHANGED <<comments_vars, transcript_vars, videos_vars,
                   formatter_vars, loop_vars>>
    /\ UNCHANGED <<query, num_results, format, include_comments, comment_limit,
                   returned, yielded, api_calls>>

\* lines 326-332, 351-353: the URL does not parse or holds no post id
CandidateSkipped ==
    /\ r_pc = "loop"
    /\ Len(yielded) < MaxCands
    /\ \E url \in Urls :
        /\ resolve(url) = NoneStr
        /\ yielded' = Append(yielded, Yield(url, NoneStr, "none", 0))
    /\ discovery_calls' = discovery_calls + 1
    /\ UNCHANGED <<comments_vars, transcript_vars, videos_vars,
                   formatter_vars, loop_vars>>
    /\ UNCHANGED <<r_pc, query, num_results, format, include_comments, comment_limit,
                   results, posts, returned, api_calls>>

\* a loop that a failed fetch ends: search returns what it has
CandidateFetchFailedAborts ==
    /\ r_pc = "loop"
    /\ Len(yielded) < MaxCands
    /\ \E url \in Urls, outcome \in FetchOutcomes :
        /\ resolve(url) # NoneStr
        /\ get_post_data(resolve(url), include_comments, comment_limit, outcome) = None
        /\ yielded' = Append(yielded, Yield(url, resolve(url), outcome, 1))
    /\ r_pc' = "done"
    /\ returned' = results
    /\ discovery_calls' = discovery_calls + 1
    /\ api_calls' = api_calls + 1
    /\ UNCHANGED <<comments_vars, transcript_vars, videos_vars,
                   formatter_vars, loop_vars>>
    /\ UNCHANGED <<query, num_results, format, include_comments, comment_limit,
                   results, posts>>

\* lines 334-339, 323: __get_post_data is called once and gives None; the
\* candidate is dropped and the loop goes on
CandidateFetchFailed ==
    /\ r_pc = "loop"
    /\ Len(yielded) < MaxCands
    /\ \E url \in Urls, outcome \in FetchOutcomes :
        /\ resolve(url) # NoneStr
        /\ get_post_data(resolve(url), include_comments, comment_limit, outcome) = None
        /\ yielded' = Append(yielded, Yield(url, resolve(url), outcome, 1))
    /\ r_pc' = "loop"
    /\ discovery_calls' = discovery_calls + 1
    /\ api_calls' = api_calls + 1
    /\ UNCHANGED <<comments_vars, transcript_vars, videos_vars,
                   formatter_vars, loop_vars>>
    /\ UNCHANGED <<query, num_results, format, include_comments, comment_limit,
                   results, posts, returned>>

\* a loop without the break of line 349: it goes on after the target
CandidateAcceptedNoBreak ==
    /\ r_pc = "loop"
    /\ Len(yielded) < MaxCands
    /\ \E url \in Urls, outcome \in FetchOutcomes :
        LET post == get_post_data(resolve(url), include_comments, comment_limit, outcome)
        IN  /\ resolve(url) # NoneStr
            /\ post # None
            /\ yielded' = Append(yielded, Yield(url, resolve(url), outcome, 1))
            /\ results' = accept_results(format, results, post)
            /\ posts' = accept_posts(format, posts, post)
    /\ r_pc' = "loop"
    /\ discovery_calls' = discovery_calls + 1
    /\ api_calls' = api_calls + 1
    /\ UNCHANGED <<comments_vars, transcript_vars, videos_vars,
                   formatter_vars, loop_vars>>
    /\ UNCHANGED <<query, num_results, format, include_comments, comment_limit, returned>>

\* lines 334-349: the post is fetched and accepted; the loop ends at the target
CandidateAccepted ==
    /\ r_pc = "loop"
    /\ Len(yielded) < MaxCands
    /\ \E url \in Urls, outcome \in FetchOutcomes :
        LET post == get_post_data(resolve(url), include_comments, comment_limit, outcome)
        IN  /\ resolve(url) # NoneStr
            /\ post # None
            /\ yielded' = Append(yielded, Yield(url, resolve(url), outcome, 1))
            /\ results' = accept_results(format, results, post)
            /\ posts' = accept_posts(format, posts, post)
    /\ r_pc' = IF target_reached(posts', results', num_results) THEN "format" ELSE "loop"
    /\ discovery_calls' = discovery_calls + 1
    /\ api_calls' = api_calls + 1
    /\ UNCHANGED <<comments_vars, transcript_vars, videos_vars,
                   formatter_vars, loop_vars>>
    /\ UNCHANGED <<query, num_results, format, include_comments, comment_limit, returned>>

\* line 323: the discovery iterator is exhausted
DiscoveryExhausted ==
    /\ r_pc = "loop"
    /\ r_pc' = "format"
    /\ discovery_calls' = discovery_calls + 1
    /\ UNCHANGED <<comments_vars, transcript_vars, videos_vars,
                   formatter_vars, loop_vars>>
    /\ UNCHANGED <<query, num_results, format, include_comments, comment_limit,
                   results, posts, returned, yielded, api_calls>>

\* lines 323, 359-362: the discovery iterator raises; the handler of the outer
\* try logs and search returns results as it stands
DiscoveryRaises ==
    /\ r_pc = "loop"
    /\ r_pc' = "done"
    /\ returned' = results
    /\ discovery_calls' = discovery_calls + 1
    /\ UNCHANGED <<comments_vars, transcript_vars, videos_vars,
                   formatter_vars, loop_vars>>
    /\ UNCHANGED <<query, num_results, format, include_comments, comment_limit,
                   results, posts, yielded, api_calls>>

\* lines 355-362: the markup document is built, and search returns
SearchReturn ==
    /\ r_pc = "format"
    /\ r_pc' = "done"
    /\ results' = finish_results(format, results, posts, num_results)
    /\ returned' = results'
    /\ UNCHANGED <<comments_vars, transcript_vars, videos_vars,
                   formatter_vars, loop_vars>>
    /\ UNCHANGED <<query, num_results, format, include_comments, comment_limit,
                   posts, yielded, discovery_calls, api_calls>>

NextReddit ==
    \/ SearchRaise
    \/ SearchBegin
    \/ CandidateSkipped
    \/ CandidateFetchFailed
    \/ CandidateAccepted
    \/ DiscoveryExhausted
    \/ DiscoveryRaises
    \/ SearchReturn

SpecReddit == InitReddit /\ [][NextReddit]_vars

-----------------------------------------------------------------------------
(* Claims about RedditSearcher.search, under SpecReddit *)

\* the candidates of the history that resolved and were fetched
RECURSIVE Succeeded(_)
Succeeded(ys) ==
    IF ys = <<>> THEN <<>>
    ELSE (IF Head(ys).outcome = "ok" THEN <<Head(ys)>> ELSE <<>>) \o Succeeded(Tail(ys))

\* C1: in every state of the loop the accepted records, len(results) + len(posts),
\* number at most num_results, and for 'raw' and 'slim_json' the returned list
\* has at most num_results entries
C1_AtMostTarget ==
    /\ (r_pc \in {"loop", "format"} => Len(results) + Len(posts) <= num_results)
    /\ (r_pc = "done" /\ format \in {"raw", "slim_json"} => Len(returned) <= num_results)

\* a run that returned exactly the target of two records, the loop having ended
\* on the second fetched candidate
C1_Witness ==
    /\ r_pc = "done"
    /\ format = "raw"
    /\ num_results = 2
    /\ Len(returned) = 2
    /\ Len(yielded) = 3
    /\ yielded[1].outcome = "ok"
    /\ yielded[2].outcome = "permanent"
    /\ yielded[3].outcome = "ok"

\* C2 (final count): with 'raw' or 'slim_json' the returned list has exactly
\* min(num_results, number of yielded candidates that resolved and were fetched)
\* entries
C2_FinalCount ==
    (r_pc = "done" /\ format \in {"raw", "slim_json"})
        => Len(returned) = Min(num_results, Len(Succeeded(yielded)))

\* C2 (no abort): a step that yields a candidate whose resolution or fetch fails
\* leaves the run in the loop, with what was accepted before untouched
C2_FailureSkipped ==
    (r_pc = "loop" /\ Len(yielded') = Len(yielded) + 1
                   /\ yielded'[Len(yielded')].outcome # "ok")
        => (r_pc' = "loop" /\ results' = results /\ posts' = posts)

\* C2: a candidate whose id resolution or fetch fails is skipped without
\* aborting the run, and the returned 'raw' or 'slim_json' list has exactly
\* min(num_results, number of succeeding yielded candidates) entries
C2_FailuresIsolated == [](C2_FinalCount) /\ [][C2_FailureSkipped]_vars

\* a finished run in which a candidate failed its fetch, another failed
\* resolution, and a later candidate was accepted and returned
C2_Witness ==
    /\ r_pc = "done"
    /\ format = "slim_json"
    /\ Len(yielded) = 3
    /\ yielded[1].outcome = "transient"
    /\ yielded[2].outcome = "none"
    /\ yielded[3].outcome = "ok"
    /\ Len(returned) = 1

\* C3: search raises exactly when format is not one of the three modes, query
\* is empty or num_results is outside [1,25]; when it raises no call to the
\* discovery provider or the Reddit API was made and nothing was produced
C3_ConfigErrorFirst ==
    LET bad == \/ format \notin {"raw", "slim_json", "slim_xml"}
               \/ query = ""
               \/ num_results < 1
               \/ num_results > 25
    IN  /\ (bad => r_pc \in {"start", "raised"})
        /\ (r_pc = "raised" =>
              /\ bad
              /\ discovery_calls = 0 /\ api_calls = 0
              /\ yielded = <<>> /\ results = <<>> /\ posts = <<>>
              /\ returned = None)

\* search has raised for a count above the upper limit, all else being valid
C3_Witness ==
    /\ r_pc = "raised"
    /\ num_results = MaxNumResults + 1
    /\ format = "slim_xml"
    /\ query # ""

\* the post blocks of a markup document, each by the text of its url line
RECURSIVE BlockUrls(_)
BlockUrls(doc) ==
    IF doc = <<>> THEN <<>>
    ELSE (IF Head(doc).tag = "url" THEN <<Head(doc).text>> ELSE <<>>) \o BlockUrls(Tail(doc))

CountTag(doc, tag) == Cardinality({i \in 1..Len(doc) : doc[i].tag = tag})

\* the url of the record of a candidate that was fetched
UrlOfYield(y) == <<"https://reddit.com">> \o SubmissionOf(y.post_id).permalink

\* C5: with 'slim_xml', when at least one candidate was accepted the returned
\* list holds exactly one element, a document in one outer container with exactly
\* min(num_results, number of fetched candidates) post blocks, those of the
\* accepted candidates in acceptance order and of no failed candidate
C5_SingleDocument ==
    (r_pc = "done" /\ format = "slim_xml" /\ Succeeded(yielded) # <<>>) =>
        LET ok == Succeeded(yielded)
            k == Min(num_results, Len(ok))
        IN  /\ Len(returned) = 1
            /\ returned[1][1].tag = "<reddit_posts>"
            /\ returned[1][Len(returned[1])].tag = "</reddit_posts>"
            /\ CountTag(returned[1], "<reddit_posts>") = 1
            /\ CountTag(returned[1], "</reddit_posts>") = 1
            /\ CountTag(returned[1], "<post>") = k
            /\ BlockUrls(returned[1]) = [i \in 1..k |-> UrlOfYield(ok[i])]

\* C9: a per-item fetch that fails transiently is attempted again, up to the
\* configured maximum, before the item is treated as failed
C9_TransientRetried ==
    \A i \in 1..Len(yielded) :
        yielded[i].outcome = "transient" => yielded[i].attempts = DefaultMaxRetries

-----------------------------------------------------------------------------
(* RedditSearcher.__get_post_data, lines 143-159, over every small feed *)

\* the comment the Reddit API holds at position i of a feed
FeedComment(i, score, stickied) ==
    [author |-> IF i % 2 = 0 THEN None ELSE [name |-> "u"],
     score |-> score, body |-> <<"c", ToString(i)>>, created_utc |-> i, stickied |-> stickied]

FeedsOfLen(n) ==
    { [i \in 1..n |-> FeedComment(i, f[i][1], f[i][2])] :
        f \in [1..n -> (0..MaxScore) \X BOOLEAN] }

\* the feed with scores 1, 9, 2, 8, 3
ExampleScores == <<1, 9, 2, 8, 3>>
ExampleFeed == [i \in 1..Len(ExampleScores) |-> FeedComment(i, ExampleScores[i], FALSE)]

InitComments ==
    /\ IdleReddit
    /\ IdleTranscript
    /\ IdleVideos
    /\ IdleFormatter
    /\ IdleLoop
    /\ c_pc = "start"
    /\ c_feed \in UNION {FeedsOfLen(n) : n \in 0..MaxFeed} \cup {ExampleFeed}
    /\ c_include \in BOOLEAN
    /\ c_limit \in (-1)..MaxLimit
    /\ c_comments = <<>>

\* lines 143-159
GetComments ==
    /\ c_pc = "start"
    /\ c_pc' = "done"
    /\ c_comments' = top_comments(c_feed, c_include, c_limit)
    /\ UNCHANGED <<c_feed, c_include, c_limit>>
    /\ UNCHANGED <<reddit_vars, transcript_vars, videos_vars,
                   formatter_vars, loop_vars>>

NextComments == GetComments

SpecComments == InitComments /\ [][NextComments]_vars

\* the positions of the feed that are not stickied
Unstickied == {i \in 1..Len(c_feed) : ~c_feed[i].stickied}

\* the feed position a built comment comes from
FeedPos(c) == CHOOSE i \in 1..Len(c_feed) : iso_format(c_feed[i].created_utc) = c.created_utc

\* position a is before position b in the order "score descending, feed order on ties"
RanksBefore(a, b) ==
    \/ c_feed[a].score > c_feed[b].score
    \/ (c_feed[a].score = c_feed[b].score /\ a < b)

\* C4: with include_comments true and comment_limit >= 0 the comments of the
\* record are the first min(comment_limit, n) of the n non-stickied comments of
\* the feed in the order score descending, equal scores in feed order: every
\* comment left out ranks after every comment kept
C4_SortThenTruncate ==
    (c_pc = "done" /\ c_include /\ c_limit >= 0) =>
        LET k == Min(c_limit, Cardinality(Unstickied))
            kept == {FeedPos(c_comments[j]) : j \in 1..Len(c_comments)}
        IN  /\ Len(c_comments) = k
            /\ Cardinality(kept) = k
            /\ kept \subseteq Unstickied
            /\ \A j \in 1..Len(c_comments) :
                  /\ c_comments[j].score = c_feed[FeedPos(c_comments[j])].score
                  /\ c_comments[j].body = c_feed[FeedPos(c_comments[j])].body
            /\ \A i, j \in 1..Len(c_comments) :
                  i < j => RanksBefore(FeedPos(c_comments[i]), FeedPos(c_comments[j]))
            /\ \A a \in kept, b \in Unstickied \ kept : RanksBefore(a, b)

\* the feed with scores 1, 9, 2, 8, 3 and limit 3 gave the scores 9, 8, 3
C4_Witness ==
    /\ c_pc = "done"
    /\ c_include
    /\ c_limit = 3
    /\ [i \in 1..Len(c_feed) |-> c_feed[i].score] = <<1, 9, 2, 8, 3>>
    /\ [i \in 1..Len(c_comments) |-> c_comments[i].score] = <<9, 8, 3>>

-----------------------------------------------------------------------------
(* youtube_search.py : YouTubeSearcher.get_video_transcript *)

\* an optional text: Python's None, or a string (which may be empty)
NoText == [some |-> FALSE, text |-> <<>>]
SomeText(t) == [some |-> TRUE, text |-> t]

\* what YouTubeTranscriptApi.list_transcripts does on one call: it raises, or
\* gives a list that is empty, holds an English transcript, or holds others only
ListOutcomes == {"TranscriptsDisabled", "VideoUnavailable", "transient",
                 "empty", "has_en", "has_other"}
\* what transcript.fetch() does on one call
FetchCallOutcomes == {"ok", "transient", "TranscriptsDisabled", "VideoUnavailable"}

PermanentErrors == {"TranscriptsDisabled", "VideoUnavailable"}

\* the text the formatter makes of a fetched transcript
TranscriptText(list_outcome) ==
    IF list_outcome = "has_en" THEN <<"hello", "&amp;", "<">> ELSE <<"hola">>

\* lines 101-105: find_transcript(['en']), and on NoTranscriptFound the first
\* transcript of the list or None (find_transcript reads the list it was given
\* and calls nothing, so NoTranscriptFound is all it raises)
pick_transcript(list_outcome) ==
    IF list_outcome = "has_en" THEN "en"
    ELSE IF list_outcome = "has_other" THEN "other"
    ELSE NoneStr

\* lines 93-112: what one pass through the try block ends with: the name of
\* the exception raised, "none" (line 109) or "ok" (line 112)
try_block(list_outcome, fetch_outcome) ==
    IF list_outcome \in PermanentErrors \cup {"transient"} THEN list_outcome
    ELSE IF pick_transcript(list_outcome) = NoneStr THEN "none"
    ELSE fetch_outcome

\* the entries of the history
Event(ev, what, ms) == [ev |-> ev, what |-> what, ms |-> ms]

\* lines 93-112: the delays and calls one pass through the try block makes
try_events(list_outcome, fetch_outcome) ==
    << Event("rate_delay", "", RateDelayMs), Event("list_transcripts", list_outcome, 0) >>
    \o (IF list_outcome \in {"has_en", "has_other"}
        THEN << Event("fetch", fetch_outcome, 0) >>
        ELSE <<>>)

\* a handler that takes every exception for a transient one
on_exception_retry_all(exc, att, maxr) ==
    IF att = maxr - 1 THEN "return" ELSE "retry"

\* a handler that gives up one attempt late
on_exception_one_late(exc, att, maxr) ==
    IF exc \in PermanentErrors THEN "return"
    ELSE IF att = maxr THEN "return"
    ELSE "retry"

\* lines 114-125: the except clauses
on_exception(exc, att, maxr) ==
    IF exc \in PermanentErrors THEN "return"
    ELSE IF att = maxr - 1 THEN "return"
    ELSE "retry"

\* line 125: the delay before the next attempt
backoff_delay(att) == BackoffMs

InitTranscript ==
    /\ IdleReddit
    /\ IdleComments
    /\ IdleVideos
    /\ IdleFormatter
    /\ IdleLoop
    /\ t_pc = "start"
    /\ max_retries \in 0..MaxRetriesTried
    /\ attempt = 0
    /\ t_result = NoText
    /\ t_log = <<>>

\* line 91: range(self.max_retries) is entered, or is empty and the method
\* falls off its end, returning None
TranscriptBegin ==
    /\ t_pc = "start"
    /\ t_pc' = IF 0 < max_retries THEN "attempt" ELSE "returned"
    /\ UNCHANGED <<max_retries, attempt, t_result, t_log>>
    /\ UNCHANGED <<reddit_vars, comments_vars, videos_vars,
                   formatter_vars, loop_vars>>

\* lines 93-112: the transcript is listed, fetched and returned
AttemptSucceeds ==
    /\ t_pc = "attempt"
    /\ \E lo \in ListOutcomes, fo \in FetchCallOutcomes :
        /\ try_block(lo, fo) = "ok"
        /\ t_log' = t_log \o try_events(lo, fo)
        /\ t_result' = SomeText(TranscriptText(lo))
    /\ t_pc' = "returned"
    /\ UNCHANGED <<max_retries, attempt>>
    /\ UNCHANGED <<reddit_vars, comments_vars, videos_vars,
                   formatter_vars, loop_vars>>

\* lines 93-109: the list holds no transcript
AttemptNoTranscript ==
    /\ t_pc = "attempt"
    /\ \E lo \in ListOutcomes, fo \in FetchCallOutcomes :
        /\ try_block(lo, fo) = "none"
        /\ t_log' = t_log \o try_events(lo, fo)
    /\ t_result' = NoText
    /\ t_pc' = "returned"
    /\ UNCHANGED <<max_retries, attempt>>
    /\ UNCHANGED <<reddit_vars, comments_vars, videos_vars,
                   formatter_vars, loop_vars>>

\* lines 93-125: the try block raises; the handler returns None, or sleeps and
\* lets the loop go to its next attempt (or to its end)
AttemptRaises ==
    /\ t_pc = "attempt"
    /\ \E lo \in ListOutcomes, fo \in FetchCallOutcomes :
        LET exc == try_block(lo, fo)
        IN  /\ exc \notin {"ok", "none"}
            /\ IF on_exception(exc, attempt, max_retries) = "return"
               THEN /\ t_log' = t_log \o try_events(lo, fo)
                    /\ t_pc' = "returned"
                    /\ attempt' = attempt
               ELSE /\ t_log' = t_log \o try_events(lo, fo)
                               \o << Event("backoff", "", backoff_delay(attempt)) >>
                    /\ t_pc' = IF attempt + 1 < max_retries THEN "attempt" ELSE "returned"
                    /\ attempt' = IF attempt + 1 < max_retries THEN attempt + 1 ELSE attempt
    /\ t_result' = NoText
    /\ UNCHANGED max_retries
    /\ UNCHANGED <<reddit_vars, comments_vars, videos_vars,
                   formatter_vars, loop_vars>>

NextTranscript ==
    \/ TranscriptBegin
    \/ AttemptSucceeds
    \/ AttemptNoTranscript
    \/ AttemptRaises

SpecTranscript == InitTranscript /\ [][NextTranscript]_vars

\* the method runs to its end: every call it makes returns or raises
FairSpecTranscript == SpecTranscript /\ WF_vars(NextTranscript)

-----------------------------------------------------------------------------
(* Claims about get_video_transcript, under SpecTranscript / FairSpecTranscript *)

IsBackoff(e) == e.ev = "backoff"
IsAttemptStart(e) == e.ev = "rate_delay"
IsTransientCall(e) == e.ev \in {"list_transcripts", "fetch"} /\ e.what = "transient"
IsPermanentCall(e) ==
    \/ (e.ev \in {"list_transcripts", "fetch"} /\ e.what \in {"TranscriptsDisabled", "VideoUnavailable"})
    \/ (e.ev = "list_transcripts" /\ e.what = "empty")

\* the backoff delays slept so far, the attempts begun, the attempts that failed
\* transiently
Backoffs == SelectSeq(t_log, IsBackoff)
Attempts == Len(SelectSeq(t_log, IsAttemptStart))
TransientFailures == Len(SelectSeq(t_log, IsTransientCall))

\* C6 (safety part): at most max_retries attempts; a call that succeeds after k
\* transient failures made k+1 attempts with k < max_retries; a call whose
\* attempts all failed transiently made max_retries attempts and returned None;
\* a backoff delay follows a transient failure and is followed by the next
\* attempt, every attempt but the first follows a backoff delay, and no backoff
\* delay is shorter than the one before
C6_BoundedRetries ==
    /\ Attempts <= max_retries
    /\ (t_pc = "returned" /\ t_result.some) =>
          (Attempts = TransientFailures + 1 /\ TransientFailures < max_retries)
    /\ (t_pc = "returned" /\ TransientFailures = Attempts) =>
          (Attempts = max_retries /\ ~t_result.some)
    /\ \A j \in 1..Len(t_log) :
          /\ IsBackoff(t_log[j]) =>
                /\ j > 1 /\ IsTransientCall(t_log[j - 1])
                /\ t_log[j].ms > 0
                /\ (j < Len(t_log) => IsAttemptStart(t_log[j + 1]))
                /\ (j = Len(t_log) => t_pc = "attempt")
          /\ (IsAttemptStart(t_log[j]) /\ j > 1) => IsBackoff(t_log[j - 1])
    /\ \A i \in 1..(Len(Backoffs) - 1) : Backoffs[i].ms <= Backoffs[i + 1].ms

\* C6: get_video_transcript makes k+1 attempts when the first k fail transiently
\* and k < max_retries, max_retries attempts (and returns None) otherwise, never
\* more; exactly one backoff delay separates two consecutive attempts, none
\* shorter than the one before; and the call always returns
C6_RetriesTerminate == [](C6_BoundedRetries) /\ <>(t_pc = "returned")

\* with max_retries 3, two transient failures then a success: three attempts,
\* two backoff delays
C6_Witness ==
    /\ t_pc = "returned"
    /\ max_retries = 3
    /\ t_result.some
    /\ TransientFailures = 2
    /\ Attempts = 3
    /\ Len(Backoffs) = 2

\* C7: a permanent failure (transcripts disabled, video unavailable, no
\* transcript in the list) is the last thing the call does: it has returned,
\* what it returned is None, and no attempt and no backoff delay follow
C7_PermanentNotRetried ==
    \A j \in 1..Len(t_log) :
        IsPermanentCall(t_log[j]) =>
            /\ j = Len(t_log)
            /\ t_pc = "returned"
            /\ ~t_result.some

\* a second attempt, made after a transient failure, found the transcripts
\* disabled and the call returned None there, a third attempt being allowed
C7_Witness ==
    /\ t_pc = "returned"
    /\ max_retries = 3
    /\ Attempts = 2
    /\ TransientFailures = 1
    /\ t_log[Len(t_log)] = Event("list_transcripts", "TranscriptsDisabled", 0)
    /\ ~t_result.some

\* C8: the backoff is exponential: each backoff delay is double the one before
C8_BackoffDoubles ==
    \A i \in 1..(Len(Backoffs) - 1) : Backoffs[i + 1].ms = 2 * Backoffs[i].ms

-----------------------------------------------------------------------------
(* youtube_search.py : YouTubeSearcher.search_videos *)

\* the items a search response may hold: item.get('id', {}).get('videoId')
\* and item.get('snippet', {}) may each be missing
GoodItem(n) == [videoId |-> <<"v", ToString(n)>>, has_snippet |-> TRUE,
                title |-> <<"T", ToString(n), "&lt;">>, channelTitle |-> <<"ch">>,
                publishedAt |-> <<"2024">>]
NoIdItem == [videoId |-> <<>>, has_snippet |-> TRUE,
             title |-> <<"T">>, channelTitle |-> <<"ch">>, publishedAt |-> <<"2024">>]
NoSnippetItem(n) == [videoId |-> <<"v", ToString(n)>>, has_snippet |-> FALSE,
                     title |-> <<>>, channelTitle |-> <<>>, publishedAt |-> <<>>]

\* what videos().list does in get_video_details
DetailsOutcomes == {"ok", "no_items", "raises"}
\* what list_transcripts does in search_videos: every exception is caught alike
VListOutcomes == {"raises", "empty", "has_en", "has_other"}
\* what transcript.fetch() does: segments, no segment at all, or an exception
VFetchOutcomes == {"ok", "ok_empty", "raises"}

\* get_video_details
get_video_details(outcome) ==
    IF outcome = "ok"
    THEN [description |-> <<"about", "&amp;", "<b>">>, channel_title |-> <<"ch">>]
    ELSE IF outcome = "no_items"
    THEN [description |-> <<"No description available">>, channel_title |-> <<"Unknown">>]
    ELSE [description |-> <<"Error fetching details: ", "HttpError">>,
          channel_title |-> <<"Unknown">>]

\* text[:500] + ('...' if len(text) > 500 else '')
truncate500(t) ==
    IF Len(t) > PreviewChars THEN SubSeq(t, 1, PreviewChars) \o <<"...">> ELSE t

\* '\n'.join(t.text for t in segments)
joined_segments(fetch_outcome, lang) ==
    IF fetch_outcome = "ok_empty" THEN <<>>
    ELSE IF lang = "en" THEN <<"hello", "\n", "&amp;", "<">>
    ELSE <<"hola">>

\* a flag that is raised before the list is looked at
has_transcript_flag_early(lo) == lo # "raises"

\* lines 192-196: has_transcript is set when the list holds a transcript
has_transcript_flag(lo) == lo \in {"has_en", "has_other"}

\* lines 198-221: the fetch, English first and then the first of the list
fetch_stage(lo, fen, fany) ==
    IF lo = "has_en" /\ fen # "raises"
    THEN [transcript |-> SomeText(joined_segments(fen, "en")),
          preview |-> truncate500(joined_segments(fen, "en")),
          error |-> NoText]
    ELSE IF fany # "raises"
    THEN [transcript |-> SomeText(joined_segments(fany, "first")),
          preview |-> truncate500(joined_segments(fany, "first")),
          error |-> NoText]
    ELSE [transcript |-> NoText,
          preview |-> <<"[", "Transcript available but could not be fetched", "]">>,
          error |-> SomeText(<<"Could not fetch any transcript">>)]

\* lines 167-233: transcript, transcript_preview, has_transcript, transcript_error
transcript_stage(lo, fen, fany, fmt, include) ==
    IF ~has_transcript_flag(lo)
    THEN [has_transcript |-> has_transcript_flag(lo),
          transcript |-> NoText,
          preview |-> <<"[", "No transcript available", "]">>,
          error |-> SomeText(IF lo = "raises" THEN <<"Error listing transcripts">>
                             ELSE <<"No transcripts available">>)]
    ELSE IF include \/ fmt = "raw"
    THEN [has_transcript |-> has_transcript_flag(lo)] @@ fetch_stage(lo, fen, fany)
    ELSE [has_transcript |-> has_transcript_flag(lo),
          transcript |-> NoText,
          preview |-> <<"[", "Transcript available", "]">>,
          error |-> NoText]

\* Python truthiness of an optional text
Truthy(opt) == opt.some /\ opt.text # <<>>

\* lines 235-249
make_video(item, details, st, fmt, include) ==
    [video_id |-> item.videoId,
     title |-> item.title,
     url |-> <<"https://www.youtube.com/watch?v=">> \o item.videoId,
     channel |-> item.channelTitle,
     published_at |-> item.publishedAt,
     description |-> details.description,
     has_transcript |-> st.has_transcript,
     transcript_preview |->
        IF Truthy(st.error) /\ (st.preview = <<>> \/ st.preview[1] # "[")
        THEN <<"[", "Error: ">> \o st.error.text \o <<"]">>
        ELSE st.preview,
     full_transcript |->
        IF (include \/ fmt = "raw") /\ Truthy(st.transcript) THEN st.transcript ELSE NoText]

\* YouTubeSearcher.__format_slim_json
yt_format_slim_json(video, include) ==
    LET base == [title |-> video.title,
                 channel |-> video.channel,
                 url |-> video.url,
                 published_at |-> video.published_at,
                 description |-> truncate500(video.description),
                 has_transcript |-> video.has_transcript,
                 transcript_preview |-> video.transcript_preview]
    IN  IF include /\ Truthy(video.full_transcript)
        THEN base @@ [full_transcript |-> video.full_transcript.text]
        ELSE base

\* escape_xml of lines 292-297: str(text), nothing is escaped
escape_xml(t) == t

\* YouTubeSearcher.__format_slim_xml: the fragment as its sequence of lines
yt_format_slim_xml(video, include) ==
    << Line("title", escape_xml(video.title)),
       Line("channel", escape_xml(video.channel)),
       Line("url", escape_xml(video.url)),
       Line("published", escape_xml(video.published_at)),
       Line("description", escape_xml(unescape(truncate500(video.description)))) >>
    \o (IF video.transcript_preview # <<>>
        THEN <<Line("transcript_preview", escape_xml(unescape(video.transcript_preview)))>>
        ELSE <<>>)
    \o (IF include /\ Truthy(video.full_transcript)
        THEN <<Line("full_transcript", escape_xml(unescape(video.full_transcript.text)))>>
        ELSE <<>>)

\* lines 176-215: the delays and the calls to the transcript API made for one
\* item, in order: the list is asked for, then the English transcript is
\* fetched and then the first of the list ("none": the call is not made);
\* nothing sleeps between or before them
transcript_calls(lo, fen, fany) ==
    (IF lo # "none" THEN << Event("list_transcripts", lo, 0) >> ELSE <<>>)
    \o (IF fen # "none" THEN << Event("fetch", fen, 0) >> ELSE <<>>)
    \o (IF fany # "none" THEN << Event("fetch", fany, 0) >> ELSE <<>>)

\* lines 251-257
format_video(video, fmt, include) ==
    IF fmt = "slim_json" THEN yt_format_slim_json(video, include)
    ELSE IF fmt = "slim_xml" THEN yt_format_slim_xml(video, include)
    ELSE video

\* line 142
clamp_max_results(m) == Max(MinMaxResults, Min(MaxMaxResults, m))

MaxResultsTried == {0, MaxItems, MaxMaxResults + 1}

InitVideos ==
    /\ IdleReddit
    /\ IdleComments
    /\ IdleTranscript
    /\ IdleFormatter
    /\ IdleLoop
    /\ v_pc = "start"
    /\ v_format \in Formats \cup {"csv"}
    /\ include_full_transcript \in BOOLEAN
    /\ max_results \in MaxResultsTried
    /\ v_items = <<>>
    /\ videos = <<>>
    /\ v_returned = None
    /\ v_hist = <<>>

\* what the history keeps of one item
Processed(item, details, lo, fen, fany, index, video) ==
    [item |-> item, details |-> details, list |-> lo, fetch_en |-> fen,
     fetch_any |-> fany, index |-> index, video |-> video]

\* lines 139-140
VideosRaise ==
    /\ v_pc = "start"
    /\ v_format \notin Formats
    /\ v_pc' = "raised"
    /\ UNCHANGED <<v_format, include_full_transcript, max_results, v_items, videos,
                   v_returned, v_hist>>
    /\ UNCHANGED <<reddit_vars, comments_vars, transcript_vars,
                   formatter_vars, loop_vars>>

\* lines 147-153, 263-271: the search call raises; the empty batch is returned
VideosSearchFails ==
    /\ v_pc = "start"
    /\ v_format \in Formats
    /\ v_pc' = "returned"
    /\ v_returned' = videos
    /\ UNCHANGED <<v_format, include_full_transcript, max_results, v_items, videos, v_hist>>
    /\ UNCHANGED <<reddit_vars, comments_vars, transcript_vars,
                   formatter_vars, loop_vars>>

\* lines 142-155: the search response holds at most the clamped number of items
VideosSearchOk ==
    /\ v_pc = "start"
    /\ v_format \in Formats
    /\ \E n \in 0..Min(clamp_max_results(max_results), MaxItems) :
         \E f \in [1..n -> {"good", "no_id", "no_snippet"}] :
            v_items' = [i \in 1..n |->
                          IF f[i] = "good" THEN GoodItem(i)
                          ELSE IF f[i] = "no_id" THEN NoIdItem ELSE NoSnippetItem(i)]
    /\ v_pc' = "loop"
    /\ UNCHANGED <<v_format, include_full_transcript, max_results, videos,
                   v_returned, v_hist>>
    /\ UNCHANGED <<reddit_vars, comments_vars, transcript_vars,
                   formatter_vars, loop_vars>>

\* lines 157-161: an item without video id or snippet is passed over
ItemSkipped ==
    /\ v_pc = "loop"
    /\ v_items # <<>>
    /\ (Head(v_items).videoId = <<>> \/ ~Head(v_items).has_snippet)
    /\ v_hist' = Append(v_hist, Processed(Head(v_items), "none", "none", "none", "none", 0, None))
    /\ v_items' = Tail(v_items)
    /\ UNCHANGED <<v_pc, v_format, include_full_transcript, max_results, videos, v_returned>>
    /\ UNCHANGED <<reddit_vars, comments_vars, transcript_vars,
                   formatter_vars, loop_vars>>

\* what an item with id and snippet becomes, and the history of it
ItemDone(details, lo, fen, fany) ==
    LET item == Head(v_items)
        st == transcript_stage(lo, fen, fany, v_format, include_full_transcript)
        video == make_video(item, get_video_details(details), st, v_format,
                            include_full_transcript)
    IN  /\ videos' = Append(videos, format_video(video, v_format, include_full_transcript))
        /\ v_hist' = Append(v_hist, Processed(item, details, lo, fen, fany,
                                               Len(videos) + 1, video))
        /\ v_items' = Tail(v_items)

\* lines 164-257 when listing the transcripts raises or gives an empty list
ItemNoTranscript ==
    /\ v_pc = "loop"
    /\ v_items # <<>>
    /\ Head(v_items).videoId # <<>> /\ Head(v_items).has_snippet
    /\ \E details \in DetailsOutcomes, lo \in {"raises", "empty"} :
          ItemDone(details, lo, "none", "none")
    /\ UNCHANGED <<v_pc, v_format, include_full_transcript, max_results, v_returned>>
    /\ UNCHANGED <<reddit_vars, comments_vars, transcript_vars,
                   formatter_vars, loop_vars>>

\* lines 164-257 when the list holds a transcript and no fetch is asked for
ItemListedOnly ==
    /\ v_pc = "loop"
    /\ v_items # <<>>
    /\ Head(v_items).videoId # <<>> /\ Head(v_items).has_snippet
    /\ ~(include_full_transcript \/ v_format = "raw")
    /\ \E details \in DetailsOutcomes, lo \in {"has_en", "has_other"} :
          ItemDone(details, lo, "none", "none")
    /\ UNCHANGED <<v_pc, v_format, include_full_transcript, max_results, v_returned>>
    /\ UNCHANGED <<reddit_vars, comments_vars, transcript_vars,
                   formatter_vars, loop_vars>>

\* lines 164-257 when the list holds a transcript and it is fetched: English
\* first, and the first of the list when English is missing or its fetch raises
ItemFetched ==
    /\ v_pc = "loop"
    /\ v_items # <<>>
    /\ Head(v_items).videoId # <<>> /\ Head(v_items).has_snippet
    /\ (include_full_transcript \/ v_format = "raw")
    /\ \E details \in DetailsOutcomes, lo \in {"has_en", "has_other"},
          fen \in VFetchOutcomes \cup {"none"}, fany \in VFetchOutcomes \cup {"none"} :
          \* fetch_en is called when English is in the list, fetch_any when
          \* English is missing or its fetch raised
          /\ (fen = "none") = (lo = "has_other")
          /\ (fany = "none") = (lo = "has_en" /\ fen # "raises")
          /\ ItemDone(details, lo, fen, fany)
    /\ UNCHANGED <<v_pc, v_format, include_full_transcript, max_results, v_returned>>
    /\ UNCHANGED <<reddit_vars, comments_vars, transcript_vars,
                   formatter_vars, loop_vars>>

\* lines 155, 271: the items are exhausted and the batch is returned
VideosReturn ==
    /\ v_pc = "loop"
    /\ v_items = <<>>
    /\ v_pc' = "returned"
    /\ v_returned' = videos
    /\ UNCHANGED <<v_format, include_full_transcript, max_results, v_items, videos, v_hist>>
    /\ UNCHANGED <<reddit_vars, comments_vars, transcript_vars,
                   formatter_vars, loop_vars>>

NextVideos ==
    \/ VideosRaise
    \/ VideosSearchFails
    \/ VideosSearchOk
    \/ ItemSkipped
    \/ ItemNoTranscript
    \/ ItemListedOnly
    \/ ItemFetched
    \/ VideosReturn

SpecVideos == InitVideos /\ [][NextVideos]_vars

-----------------------------------------------------------------------------
(* Either search tool: one call of RedditSearcher.search or one call of    *)
(* YouTubeSearcher.search_videos                                           *)

InitSearchers == InitReddit \/ InitVideos

NextSearchers == NextReddit \/ NextVideos

SpecSearchers == InitSearchers /\ [][NextSearchers]_vars

-----------------------------------------------------------------------------
(* Claims about search_videos, under SpecVideos *)

\* the item had a video id and a snippet, so that line 164 was reached
WasProcessed(h) == h.item.videoId # <<>> /\ h.item.has_snippet

\* the transcript of the item could not be obtained: listing raised, the list
\* was empty, or every fetch that was made raised
CannotObtain(h) ==
    \/ h.list \in {"raises", "empty"}
    \/ (h.list = "has_en" /\ h.fetch_en = "raises" /\ h.fetch_any = "raises")
    \/ (h.list = "has_other" /\ h.fetch_any = "raises")

\* the record of the item is in the batch, at the place it was appended
InBatch(h) ==
    /\ h.index \in 1..Len(videos)
    /\ videos[h.index] = format_video(h.video, v_format, include_full_transcript)

\* C10 as claimed: for every video whose transcript cannot be obtained a record
\* is still appended, its full_transcript is None and has_transcript is false
C10_FlagMeansPresent ==
    \A i \in 1..Len(v_hist) :
        (WasProcessed(v_hist[i]) /\ CannotObtain(v_hist[i])) =>
            /\ InBatch(v_hist[i])
            /\ ~v_hist[i].video.full_transcript.some
            /\ ~v_hist[i].video.has_transcript

\* C10 as amended: for every video whose transcript cannot be obtained a record
\* is still appended and its full_transcript is None; has_transcript is true
\* exactly when the list of transcripts held one, fetched or not, so that
\* full_transcript is present only if has_transcript is true; search_videos
\* returns the batch without raising
C10_FlagMeansListed ==
    /\ \A i \in 1..Len(v_hist) :
          WasProcessed(v_hist[i]) =>
              /\ InBatch(v_hist[i])
              /\ (CannotObtain(v_hist[i]) => ~v_hist[i].video.full_transcript.some)
              /\ v_hist[i].video.has_transcript = (v_hist[i].list \in {"has_en", "has_other"})
              /\ (v_hist[i].video.full_transcript.some => v_hist[i].video.has_transcript)
    /\ (v_format \in Formats => v_pc # "raised")
    /\ (v_pc = "returned" => v_returned = videos)

\* a returned raw batch with a video whose transcripts were listed and whose
\* fetches, English and the first of the list, both raised
C10_Witness ==
    /\ v_pc = "returned"
    /\ v_format = "raw"
    /\ include_full_transcript
    /\ Len(v_returned) = 2
    /\ v_hist[2].list = "has_en"
    /\ v_hist[2].fetch_en = "raises"
    /\ v_hist[2].fetch_any = "raises"
    /\ v_returned[2].has_transcript
    /\ ~v_returned[2].full_transcript.some

-----------------------------------------------------------------------------
(* Claims about the per-item fetch and the formatters of both pipelines *)

\* the candidate resolved to a post id and its submission load raised
PrimaryFailed(y) == y.post_id # NoneStr /\ y.outcome # "ok"

\* the videos().list call of get_video_details raised or returned no item
DetailsFailed(h) == WasProcessed(h) /\ h.details \in {"no_items", "raises"}

\* C11: when the primary-metadata call of an item fails (the submission load
\* raises in __get_post_data; videos().list raises or returns no item in
\* get_video_details) no record of that item, complete or partial, is in the
\* batch: the Reddit batch holds one record for each candidate that was fetched
\* and none for the others, and the record built for a video whose details
\* call failed is not in the batch of search_videos
C11_PrimaryFailureNoRecord ==
    /\ (r_pc \in {"loop", "format"} =>
          Len(results) + Len(posts)
             = Len(yielded) - Cardinality({i \in 1..Len(yielded) : PrimaryFailed(yielded[i])})
                            - Cardinality({i \in 1..Len(yielded) : yielded[i].post_id = NoneStr}))
    /\ \A i \in 1..Len(v_hist) : DetailsFailed(v_hist[i]) => ~InBatch(v_hist[i])

\* the keys the reduced object may hold: title, container, url, primary text
\* and the bodies of the sub-items (comments; transcript excerpt and transcript)
RedditSlimKeys == {"title", "subreddit", "url", "selftext", "comments"}
VideoSlimKeys == {"title", "channel", "url", "description", "transcript_preview",
                  "full_transcript"}

\* the record of the k-th fetched candidate of the history
RecordOfYield(y) == get_post_data(y.post_id, include_comments, comment_limit, y.outcome)

\* the items of the history for which a record was built
RECURSIVE Built(_)
Built(hs) ==
    IF hs = <<>> THEN <<>>
    ELSE (IF WasProcessed(Head(hs)) THEN <<Head(hs)>> ELSE <<>>) \o Built(Tail(hs))

\* C12: the 'slim_json' output of either tool holds only the title, the
\* container, the url, the primary text and the sub-item bodies (no score, no
\* numeric, engagement or timestamp field; each sub-item only its body), and the
\* 'raw' output is the record itself, every field present and unchanged
C12_SlimJsonMinimal ==
    /\ (r_pc \in {"loop", "format", "done"} /\ format = "slim_json") =>
          \A i \in 1..Len(results) :
              /\ DOMAIN results[i] = RedditSlimKeys
              /\ \A c \in 1..Len(results[i].comments) :
                    DOMAIN results[i].comments[c] = {"body"}
    /\ (r_pc \in {"loop", "format", "done"} /\ format = "raw") =>
          \A i \in 1..Len(results) : results[i] = RecordOfYield(Succeeded(yielded)[i])
    /\ (v_pc \in {"loop", "returned"} /\ v_format = "slim_json") =>
          \A i \in 1..Len(videos) : DOMAIN videos[i] \subseteq VideoSlimKeys
    /\ (v_pc \in {"loop", "returned"} /\ v_format = "raw") =>
          \A i \in 1..Len(videos) : videos[i] = Built(v_hist)[i].video

\* the tokens of a text that hold a markup character as it is
RawMarkup == {"<", ">", "&", "<b>"}
HasRawMarkup(text) == \E i \in 1..Len(text) : text[i] \in RawMarkup

\* C13: in the 'slim_xml' output of either tool every <, > and & of a free
\* text (title, body or description, comment body, transcript) is escaped
\* before it is embedded: no text between the tags holds one as it is
C13_MarkupEscaped ==
    /\ (r_pc = "done" /\ format = "slim_xml") =>
          \A d \in 1..Len(returned) : \A j \in 1..Len(returned[d]) :
              ~HasRawMarkup(returned[d][j].text)
    /\ (v_pc \in {"loop", "returned"} /\ v_format = "slim_xml") =>
          \A i \in 1..Len(videos) : \A j \in 1..Len(videos[i]) :
              ~HasRawMarkup(videos[i][j].text)

-----------------------------------------------------------------------------
(* Claims about the batch of RedditSearcher.search and of search_videos *)

\* some element of the sequence occurs in it twice
RECURSIVE HasDuplicate(_)
HasDuplicate(s) ==
    IF s = <<>> THEN FALSE
    ELSE (\E j \in 1..Len(Tail(s)) : Tail(s)[j] = Head(s)) \/ HasDuplicate(Tail(s))

\* C14: no batch holds two records of the same post id: when several candidate
\* URLs resolve to one id, that id is fetched at most once and gives at most one
\* record
C14_NoDuplicateIds ==
    /\ \A i, j \in 1..Len(yielded) :
          (i # j /\ yielded[i].post_id # NoneStr /\ yielded[i].post_id = yielded[j].post_id)
              => (yielded[i].attempts = 0 \/ yielded[j].attempts = 0)
    /\ (r_pc = "done" /\ format \in {"raw", "slim_json"}) =>
          ~HasDuplicate([i \in 1..Len(returned) |-> returned[i].url])
    /\ (r_pc = "done" /\ format = "slim_xml") =>
          \A d \in 1..Len(returned) : ~HasDuplicate(BlockUrls(returned[d]))

\* the place of an item in the search response
PositionOf(item) == CHOOSE p \in 1..MaxItems : GoodItem(p) = item

\* C15: the records of a batch are in the order in which their candidates were
\* yielded: the batch of search is, record by record, what the candidates that
\* were fetched gave, in the order of the candidate sequence, and the batch of
\* search_videos is what the items with id and snippet gave, in the order of the
\* search response
C15_OrderPreserved ==
    /\ (r_pc \in {"loop", "format", "done"} /\ format = "raw") =>
          /\ Len(results) <= Len(Succeeded(yielded))
          /\ \A i \in 1..Len(results) : results[i] = RecordOfYield(Succeeded(yielded)[i])
    /\ (r_pc \in {"loop", "format", "done"} /\ format = "slim_json") =>
          /\ Len(results) <= Len(Succeeded(yielded))
          /\ \A i \in 1..Len(results) :
                results[i] = format_slim_json(RecordOfYield(Succeeded(yielded)[i]))
    /\ (r_pc \in {"loop", "format", "done"} /\ format = "slim_xml") =>
          /\ Len(posts) <= Len(Succeeded(yielded))
          /\ \A i \in 1..Len(posts) : posts[i] = RecordOfYield(Succeeded(yielded)[i])
    /\ (r_pc = "done" /\ format = "slim_xml") =>
          \A d \in 1..Len(returned) :
              LET urls == BlockUrls(returned[d])
              IN  /\ Len(urls) <= Len(Succeeded(yielded))
                  /\ \A i \in 1..Len(urls) : urls[i] = UrlOfYield(Succeeded(yielded)[i])
    /\ (r_pc = "done" => returned = results)
    /\ (v_pc \in {"loop", "returned"}) =>
          /\ Len(videos) = Len(Built(v_hist))
          /\ \A i \in 1..Len(videos) :
                videos[i] = format_video(Built(v_hist)[i].video, v_format,
                                         include_full_transcript)
          /\ \A i, j \in 1..Len(videos) :
                i < j => PositionOf(Built(v_hist)[i].item) < PositionOf(Built(v_hist)[j].item)
    /\ (v_pc = "returned" => v_returned = videos)

\* a returned raw batch of two different posts, the second candidate having
\* been skipped: post b, yielded first, is before post a
C15_Witness ==
    /\ r_pc = "done"
    /\ format = "raw"
    /\ Len(yielded) = 3
    /\ yielded[1].url = LongB /\ yielded[1].outcome = "ok"
    /\ yielded[2].outcome = "none"
    /\ yielded[3].url = ShortA /\ yielded[3].outcome = "ok"
    /\ Len(returned) = 2
    /\ returned[1].url = UrlOfYield(yielded[1])
    /\ returned[2].url = UrlOfYield(yielded[3])

\* C17: once the num_results-th record has been accepted no further candidate
\* is resolved or fetched and the discovery iterator is not advanced again: no
\* step taken after the target is reached adds a candidate, a call to the Reddit
\* API or a call to the discovery provider
C17_NoFetchAfterTarget ==
    [][(num_results >= 1 /\ Len(posts) + Len(results) >= num_results)
          => (yielded' = yielded /\ api_calls' = api_calls
                                 /\ discovery_calls' = discovery_calls)]_vars

\* search has returned one record, the target, after two candidates, a third
\* candidate never having been asked for
C17_Witness ==
    /\ r_pc = "done"
    /\ num_results = 1
    /\ Len(yielded) = 2
    /\ yielded[1].outcome = "permanent"
    /\ yielded[2].outcome = "ok"
    /\ Len(returned) = 1
    /\ api_calls = 2
    /\ discovery_calls = 3

IsTranscriptCall(e) == e.ev \in {"list_transcripts", "fetch"}
IsRateDelay(e) == e.ev = "rate_delay" /\ e.ms = RateDelayMs

\* every call of a sequence of delays and calls has the delay right before it
DelayBeforeEveryCall(es) ==
    \A j \in 1..Len(es) :
        IsTranscriptCall(es[j]) => (j > 1 /\ IsRateDelay(es[j - 1]))

\* C18: every call to the transcript API is immediately preceded by the fixed
\* inter-call delay, in get_video_transcript (first attempts and retries) and in
\* the listing and fetching of search_videos
C18_DelayBeforeEveryCall ==
    /\ DelayBeforeEveryCall(t_log)
    /\ \A i \in 1..Len(v_hist) :
          DelayBeforeEveryCall(transcript_calls(v_hist[i].list, v_hist[i].fetch_en,
                                                v_hist[i].fetch_any))

\* C20: search returns the same accepted posts whatever the format: with k the
\* smaller of num_results and the number of candidates fetched, the 'raw' list
\* is the first k records, the 'slim_json' list their reduced objects, and the
\* 'slim_xml' list the one document of the same k records (no document when
\* k = 0), also when the discovery provider stopped or raised
C20_SameAcrossFormats ==
    r_pc = "done" =>
        LET ok == Succeeded(yielded)
            k == Min(num_results, Len(ok))
            accepted == [i \in 1..k |-> RecordOfYield(ok[i])]
        IN  /\ format = "raw" => returned = accepted
            /\ format = "slim_json" =>
                  returned = [i \in 1..k |-> format_slim_json(accepted[i])]
            /\ format = "slim_xml" =>
                  /\ Len(returned) = (IF k = 0 THEN 0 ELSE 1)
                  /\ \A d \in 1..Len(returned) : returned[d] = format_slim_xml(accepted)

-----------------------------------------------------------------------------
(* RedditSearcher.__format_slim_xml on any list, lines 203-280 *)

\* most entries in a list given to __format_slim_xml
MaxPosts == 2

\* An entry of the list is None, an object with attributes or a dict with keys.
\* keys: the attributes or keys it has; raises: the field whose value makes the
\* formatter raise when it is used (str() of it raises, or, for comments, it is
\* not iterable), such a value being truthy.
XmlFields == {"title", "subreddit", "url", "selftext", "comments"}

Entry(kind, keys, raises, post) ==
    [kind |-> kind, keys |-> keys, raises |-> raises,
     title |-> post.title, subreddit |-> post.subreddit, url |-> post.url,
     selftext |-> post.selftext, comments |-> post.comments]

\* a post with comments, and a post whose texts are all empty
FullPost == build_post(SubmissionOf("a"), top_comments(FeedA, TRUE, 2))
BlankPost == [title |-> <<>>, subreddit |-> <<>>, url |-> <<>>, selftext |-> <<>>,
              comments |-> <<>>]

NoneEntry == Entry("None", {}, "none", BlankPost)

KeySets == {XmlFields, {}, {"title"}, {"title", "comments"}, {"selftext", "comments"}}

Entries ==
    {NoneEntry} \cup
    { Entry(kind, keys, raises, post) :
        kind \in {"object", "dict"}, keys \in KeySets,
        raises \in {"none", "title", "selftext", "comments"},
        post \in {FullPost, BlankPost} }

\* the value of raises names a field the entry has
WellFormedEntry(e) == e.raises = "none" \/ e.raises \in e.keys

\* line 213: None and the empty dict are falsy
falsy_entry(e) == e.kind = "None" \/ (e.kind = "dict" /\ e.keys = {})

\* lines 221-234: hasattr(post, f) and post.f, or isinstance(post, dict) and f in post
field_used(e, f) ==
    /\ f \in e.keys
    /\ (e.kind = "dict" \/ e.raises = f \/ e[f] # <<>>)

\* lines 237-243, 249-255: the value is looked up as above and must be truthy
field_truthy(e, f) == f \in e.keys /\ (e.raises = f \/ e[f] # <<>>)

\* lines 218-273 for one entry that is not falsy: the lines appended until the
\* entry is done or the handler of line 275 is entered
xml_entry_lines(e) ==
    LET open == <<Line("<post>", <<>>)>>
        title == IF field_used(e, "title")
                 THEN <<Line("title", unescape(e.title))>> ELSE <<>>
        subreddit == IF field_used(e, "subreddit")
                     THEN <<Line("subreddit", e.subreddit)>> ELSE <<>>
        url == IF field_used(e, "url") THEN <<Line("url", e.url)>> ELSE <<>>
        selftext == IF field_truthy(e, "selftext")
                    THEN <<Line("<selftext>", <<>>), Line("#text", unescape(e.selftext)),
                           Line("</selftext>", <<>>)>>
                    ELSE <<>>
        comments == IF field_truthy(e, "comments")
                    THEN <<Line("<comments>", <<>>)>> \o xml_comment_lines(e.comments)
                         \o <<Line("</comments>", <<>>)>>
                    ELSE <<>>
    IN  IF field_used(e, "title") /\ e.raises = "title"
        THEN open
        ELSE IF field_truthy(e, "selftext") /\ e.raises = "selftext"
        THEN open \o title \o subreddit \o url \o <<Line("<selftext>", <<>>)>>
        ELSE IF field_truthy(e, "comments") /\ e.raises = "comments"
        THEN open \o title \o subreddit \o url \o selftext \o <<Line("<comments>", <<>>)>>
        ELSE open \o title \o subreddit \o url \o selftext \o comments
             \o <<Line("</post>", <<>>)>>

\* lines 212-277
RECURSIVE xml_entries_lines(_)
xml_entries_lines(es) ==
    IF es = <<>> THEN <<>>
    ELSE (IF falsy_entry(Head(es)) THEN <<>> ELSE xml_entry_lines(Head(es)))
         \o xml_entries_lines(Tail(es))

\* lines 210-280
format_slim_xml_any(es) ==
    <<Line("<reddit_posts>", <<>>)>> \o xml_entries_lines(es)
    \o <<Line("</reddit_posts>", <<>>)>>

InitFormatter ==
    /\ IdleReddit
    /\ IdleComments
    /\ IdleTranscript
    /\ IdleVideos
    /\ IdleLoop
    /\ x_pc = "start"
    /\ x_posts \in UNION { [1..n -> {e \in Entries : WellFormedEntry(e)}] : n \in 0..MaxPosts }
    /\ x_lines = <<>>

\* __format_slim_xml
FormatSlimXml ==
    /\ x_pc = "start"
    /\ x_pc' = "done"
    /\ x_lines' = format_slim_xml_any(x_posts)
    /\ UNCHANGED x_posts
    /\ UNCHANGED <<reddit_vars, comments_vars, transcript_vars, videos_vars, loop_vars>>

NextFormatter == FormatSlimXml

SpecFormatter == InitFormatter /\ [][NextFormatter]_vars

\* the closing line of an opening line
Opening == {"<reddit_posts>", "<post>", "<selftext>", "<comments>"}
Closing == {"</reddit_posts>", "</post>", "</selftext>", "</comments>"}
CloserOf(tag) ==
    CASE tag = "<reddit_posts>" -> "</reddit_posts>"
      [] tag = "<post>" -> "</post>"
      [] tag = "<selftext>" -> "</selftext>"
      [] tag = "<comments>" -> "</comments>"

\* the lines close what was opened last, and nothing stays open: stack is the
\* sequence of the closing lines awaited, the innermost first
RECURSIVE Nested(_, _)
Nested(doc, stack) ==
    IF doc = <<>> THEN stack = <<>>
    ELSE IF Head(doc).tag \in Opening
    THEN Nested(Tail(doc), <<CloserOf(Head(doc).tag)>> \o stack)
    ELSE IF Head(doc).tag \in Closing
    THEN stack # <<>> /\ Head(stack) = Head(doc).tag /\ Nested(Tail(doc), Tail(stack))
    ELSE Nested(Tail(doc), stack)

\* C19: the document of __format_slim_xml is well nested for every input list,
\* with None entries, records with missing fields and records whose formatting
\* raises part-way: every <post> has its </post>, every <comments> its
\* </comments>, the outer container is opened and closed exactly once, and no
\* partial fragment is left
C19_WellNested ==
    x_pc = "done" =>
        /\ x_lines # <<>>
        /\ x_lines[1].tag = "<reddit_posts>"
        /\ x_lines[Len(x_lines)].tag = "</reddit_posts>"
        /\ CountTag(x_lines, "<reddit_posts>") = 1
        /\ CountTag(x_lines, "</reddit_posts>") = 1
        /\ CountTag(x_lines, "<post>") = CountTag(x_lines, "</post>")
        /\ CountTag(x_lines, "<comments>") = CountTag(x_lines, "</comments>")
        /\ Nested(x_lines, <<>>)

-----------------------------------------------------------------------------
(* The for loop of RedditSearcher.search, lines 323-353, at the grain of   *)
(* the calls of __get_post_data: a call begins, and later it returns       *)

\* what a candidate of the iterator will come to: "skip" (no post id in the
\* URL, or urlparse raises), "fail" (__get_post_data returns None), "ok"
CandidateKinds == {"skip", "fail", "ok"}

InitLoop ==
    /\ IdleReddit
    /\ IdleComments
    /\ IdleTranscript
    /\ IdleVideos
    /\ IdleFormatter
    /\ l_pc = "next"
    /\ l_candidates \in UNION { [1..n -> CandidateKinds] : n \in 0..MaxCands }
    /\ l_num_results \in MinNumResults..MaxNum
    /\ l_accepted = 0
    /\ l_in_flight = 0

\* lines 323-332, 351-353: the iterator yields a URL that gives no post id
LoopSkip ==
    /\ l_pc = "next"
    /\ l_candidates # <<>>
    /\ Head(l_candidates) = "skip"
    /\ l_candidates' = Tail(l_candidates)
    /\ UNCHANGED <<l_pc, l_num_results, l_accepted, l_in_flight>>
    /\ UNCHANGED <<reddit_vars, comments_vars, transcript_vars, videos_vars, formatter_vars>>

\* lines 323-338: the iterator yields a URL with a post id and the loop calls
\* __get_post_data for it; the loop itself makes the call and waits for it
LoopCall ==
    /\ l_pc = "next"
    /\ l_candidates # <<>>
    /\ Head(l_candidates) # "skip"
    /\ l_in_flight' = l_in_flight + 1
    /\ l_pc' = "fetching"
    /\ UNCHANGED <<l_candidates, l_num_results, l_accepted>>
    /\ UNCHANGED <<reddit_vars, comments_vars, transcript_vars, videos_vars, formatter_vars>>

\* lines 339-349: the call returns; a post is appended, and the loop is left
\* when the target is reached
LoopReturn ==
    /\ l_pc = "fetching"
    /\ l_in_flight' = l_in_flight - 1
    /\ l_accepted' = IF Head(l_candidates) = "ok" THEN l_accepted + 1 ELSE l_accepted
    /\ l_candidates' = Tail(l_candidates)
    /\ l_pc' = IF l_accepted' >= l_num_results THEN "done" ELSE "next"
    /\ UNCHANGED l_num_results
    /\ UNCHANGED <<reddit_vars, comments_vars, transcript_vars, videos_vars, formatter_vars>>

\* line 323: the iterator is exhausted (or raises)
LoopEnds ==
    /\ l_pc = "next"
    /\ l_candidates = <<>>
    /\ l_pc' = "done"
    /\ UNCHANGED <<l_candidates, l_num_results, l_accepted, l_in_flight>>
    /\ UNCHANGED <<reddit_vars, comments_vars, transcript_vars, videos_vars, formatter_vars>>

NextLoop ==
    \/ LoopSkip
    \/ LoopCall
    \/ LoopReturn
    \/ LoopEnds

SpecLoop == InitLoop /\ [][NextLoop]_vars

\* a candidate with a post id waits behind the fetches in flight, and the
\* target is not reached
CandidateWaits ==
    /\ l_pc \in {"next", "fetching"}
    /\ Len(l_candidates) > l_in_flight
    /\ l_candidates[l_in_flight + 1] # "skip"

\* C16: fetches are dispatched through a worker pool bounded by a configured
\* concurrency, 5 by default: the number of fetches in flight is never above 5,
\* and while fewer than 5 fetches are in flight a waiting candidate can be
\* dispatched, a fetch in flight not holding it back
C16_BoundedPool ==
    /\ l_in_flight <= 5
    /\ (CandidateWaits /\ l_in_flight < 5) => ENABLED LoopCall

\* the fetches are made one at a time, and a record is accepted only as a call
\* returns, one record a step
OneFetchAtATime ==
    /\ l_in_flight \in {0, 1}
    /\ (l_in_flight = 1) = (l_pc = "fetching")

OneWriter ==
    [][l_accepted' # l_accepted =>
          (l_accepted' = l_accepted + 1 /\ l_in_flight = 1 /\ l_in_flight' = 0)]_vars

====
